---------------------------- MODULE Spec2Model ----------------------------
(***************************************************************************)
(* Model of eznet_keras/models/keras_smart_module.py: the KerasSmartModel  *)
(* wrapper class.  The state is one constructed model object (its          *)
(* attributes), the argument it was constructed from, and a record of the  *)
(* last method invoked on it: the helper calls that method made, in        *)
(* order, and the value it returned.                                       *)
(***************************************************************************)
EXTENDS Integers, Sequences, FiniteSets, TLC

VARIABLES arg, self, nfits, op, calls, ret

vars == <<arg, self, nfits, op, calls, ret>>

(***************************************************************************)
(* Bounds of the model.                                                    *)
(***************************************************************************)
\* largest number of options in a supplied hyperparameter record
MaxKeys == 2
\* largest number of options in which a supplied record differs from the sample
MaxEdits == 1
\* largest number of rows of x_train
MaxRows == 2
\* largest number of fits performed on one model
MaxFits == 2

(***************************************************************************)
(* Python values.  Every value is a record of one shape: its type, a       *)
(* number and a string.  Floats are held in units of 1/FloatScale.         *)
(***************************************************************************)
FloatScale == 1000000

None == [t |-> "NoneType", n |-> 0, s |-> ""]
IntV(k) == [t |-> "int", n |-> k, s |-> ""]
FloatV(k) == [t |-> "float", n |-> k, s |-> ""]
StrV(x) == [t |-> "str", n |-> 0, s |-> x]
List1(x) == [t |-> "list", n |-> 1, s |-> x]
History(k) == [t |-> "History", n |-> k, s |-> ""]
Sequential == [t |-> "Sequential", n |-> 0, s |-> ""]
Exc(x) == [t |-> "Exception", n |-> 0, s |-> x]

\* Python truth value of a value (used by `if v`, `not v`, `a if v else b`)
Truthy(v) ==
    CASE v.t = "NoneType" -> FALSE
      [] v.t = "int"      -> v.n # 0
      [] v.t = "float"    -> v.n # 0
      [] v.t = "str"      -> v.s # ""
      [] v.t = "list"     -> v.n # 0
      [] OTHER            -> TRUE

\* Python int(v) on a number: floats are truncated toward zero
PyInt(v) ==
    IF v.t = "float"
    THEN IntV(IF v.n >= 0 THEN v.n \div FloatScale ELSE -((-v.n) \div FloatScale))
    ELSE IntV(v.n)

\* Python == on values: numbers compare by value across int and float
PyEq(a, b) ==
    IF a.t \in {"int", "float"} /\ b.t \in {"int", "float"}
    THEN (IF a.t = "int" THEN a.n * FloatScale ELSE a.n)
         = (IF b.t = "int" THEN b.n * FloatScale ELSE b.n)
    ELSE a = b

(***************************************************************************)
(* Hyperparameter records: functions from a set of option names to values. *)
(***************************************************************************)
EmptyRecord == [k \in {} |-> None]

\* dict.get(k): the value when k is a key, None otherwise
Get(hp, k) == IF k \in DOMAIN hp THEN hp[k] ELSE None

sample_hparams ==
    [model_name |-> StrV("KerasSmartModel"),
     l2_reg |-> FloatV(100),
     batch_size |-> IntV(16),
     epochs |-> IntV(2),
     validation_data |-> FloatV(100000),
     early_stopping_patience_epochs |-> IntV(10),
     learning_rate |-> FloatV(100),
     exponential_decay_rate |-> FloatV(990000),
     loss_function |-> StrV("categorical_crossentropy"),
     loss_function_params |-> None,
     metrics |-> List1("accuracy"),
     optimizer |-> StrV("Adam"),
     optimizer_params |-> None,
     checkpoint_path |-> None,
     early_stopping_monitor |-> StrV("loss"),
     early_stopping_mode |-> StrV("min"),
     early_stopping_value |-> FloatV(1)]

Keys == DOMAIN sample_hparams

\* the values an option takes in the supplied records
ValuesOf(k) ==
    CASE k = "batch_size" -> {None, IntV(0), IntV(16), FloatV(2500000)}
      [] k = "l2_reg" -> {None, FloatV(0), FloatV(100)}
      [] k = "early_stopping_patience_epochs" -> {None, IntV(0), IntV(10)}
      [] k = "checkpoint_path" -> {None, StrV(""), StrV("ckpt")}
      [] k = "early_stopping_monitor" -> {None, StrV(""), StrV("loss")}
      [] OTHER -> {sample_hparams[k]}

RECURSIVE RecordsOver(_)
RecordsOver(D) ==
    IF D = {} THEN {EmptyRecord}
    ELSE LET k == CHOOSE x \in D : TRUE
         IN  {(k :> v) @@ r : v \in ValuesOf(k), r \in RecordsOver(D \ {k})}

\* the records with at most MaxKeys options
SmallRecords ==
    UNION {RecordsOver(D) : D \in {S \in SUBSET Keys : Cardinality(S) <= MaxKeys}}

\* the sample record with at most MaxEdits options removed or given another value
EditedSamples ==
    UNION {UNION {{r @@ [k \in Keys \ ED |-> sample_hparams[k]] : r \in RecordsOver(E)} :
                  E \in SUBSET ED} :
           ED \in {S \in SUBSET Keys : Cardinality(S) <= MaxEdits}}

\* the records a caller supplies to the constructor
Records == SmallRecords \cup EditedSamples

\* the options that decide the callbacks and their monitors
CallbackKeys ==
    {"early_stopping_patience_epochs", "checkpoint_path",
     "early_stopping_monitor", "validation_data"}

\* the records of the models that are trained: every choice of the callback
\* options, and the full sample
CallbackRecords ==
    UNION {RecordsOver(D) : D \in SUBSET CallbackKeys} \cup {sample_hparams}

\* the constructor's argument: None (no record) or a record
NoRecord == None
Args == {NoRecord} \cup Records
TrainArgs == {NoRecord} \cup CallbackRecords

(***************************************************************************)
(* Callback objects.                                                       *)
(***************************************************************************)
GarbageCollectionCallback ==
    [kind |-> "GarbageCollectionCallback", monitor |-> None, mode |-> None,
     param |-> None]
EarlyStopping(monitor, mode, patience) ==
    [kind |-> "EarlyStopping", monitor |-> monitor, mode |-> mode,
     param |-> patience]
ModelCheckpoint(path, monitor, mode) ==
    [kind |-> "ModelCheckpoint", monitor |-> monitor, mode |-> mode,
     param |-> path]
EarlyStopAtCriteria(monitor, mode, value) ==
    [kind |-> "EarlyStopAtCriteria", monitor |-> monitor, mode |-> mode,
     param |-> value]

\* list.append(x) guarded by `if x:`; a callback object is always true
AppendIf(list, x) == IF x # None THEN Append(list, x) ELSE list

(***************************************************************************)
(* KerasSmartModel.__init__                                                *)
(***************************************************************************)
\* variant: the sample is substituted only for a missing record (`is None`)
EffectiveHparams_NoneOnly(a) ==
    IF a = NoRecord THEN sample_hparams ELSE a

\* line 77: `if not hparams: hparams = self.sample_hparams`
EffectiveHparams(a) ==
    IF a = NoRecord \/ DOMAIN a = {} THEN sample_hparams ELSE a

\* variant: the batch size is taken as written, without int()
BatchSize_Unconverted(hp) ==
    IF Truthy(Get(hp, "batch_size")) THEN hp["batch_size"] ELSE IntV(32)

\* line 79
BatchSize(hp) ==
    IF Truthy(Get(hp, "batch_size")) THEN PyInt(hp["batch_size"]) ELSE IntV(32)

\* line 90
L2Reg(hp) == IF Truthy(Get(hp, "l2_reg")) THEN Get(hp, "l2_reg") ELSE FloatV(0)

\* the monitor of _es and _chk (lines 95 and 101)
LossMonitor(hp) ==
    IF "validation_data" \in DOMAIN hp THEN StrV("val_loss") ELSE StrV("loss")

\* lines 95-96
MakeEs(hp) ==
    IF Truthy(Get(hp, "early_stopping_patience_epochs"))
    THEN EarlyStopping(LossMonitor(hp), StrV("min"),
                       Get(hp, "early_stopping_patience_epochs"))
    ELSE None

\* variant: the checkpoint is built whenever the option is a key
MakeChk_KeyPresent(hp) ==
    IF "checkpoint_path" \in DOMAIN hp
    THEN ModelCheckpoint(Get(hp, "checkpoint_path"), LossMonitor(hp), StrV("min"))
    ELSE None

\* lines 99-104
MakeChk(hp) ==
    IF Truthy(Get(hp, "checkpoint_path"))
    THEN ModelCheckpoint(Get(hp, "checkpoint_path"), LossMonitor(hp), StrV("min"))
    ELSE None

\* lines 107-114
MakeEsCrit(hp) ==
    IF Truthy(Get(hp, "early_stopping_monitor"))
    THEN EarlyStopAtCriteria(Get(hp, "early_stopping_monitor"),
                             Get(hp, "early_stopping_mode"),
                             Get(hp, "early_stopping_value"))
    ELSE None

\* variant: the list starts empty, without the garbage-collection callback
MakeCallbacks_NoGC(es, chk, crit) ==
    AppendIf(AppendIf(AppendIf(<<>>, es), chk), crit)

\* variant: the checkpoint is appended before the early stopping
MakeCallbacks_ChkFirst(es, chk, crit) ==
    AppendIf(AppendIf(AppendIf(<<GarbageCollectionCallback>>, chk), es), crit)

\* lines 94, 97-98, 105-106, 110-112: the callback list, in append order
MakeCallbacks(es, chk, crit) ==
    AppendIf(AppendIf(AppendIf(<<GarbageCollectionCallback>>, es), chk), crit)

KerasSmartModel(a) ==
    LET hparams == EffectiveHparams(a)
    IN  [hparams |-> hparams,
         _batch_size |-> BatchSize(hparams),
         _loss_function |-> Get(hparams, "loss_function"),
         _metrics_list |-> Get(hparams, "metrics"),
         _optimizer |-> Get(hparams, "optimizer"),
         _optimizer_params |-> Get(hparams, "optimizer_params"),
         _early_stopping_patience_epochs |->
             Get(hparams, "early_stopping_patience_epochs"),
         _learning_rate |-> Get(hparams, "learning_rate"),
         _exponential_decay_rate |-> Get(hparams, "exponential_decay_rate"),
         _validation_data |-> Get(hparams, "validation_data"),
         _epochs |-> Get(hparams, "epochs"),
         _l2_reg |-> L2Reg(hparams),
         history |-> None,
         batch_input_shape |-> <<BatchSize(hparams), IntV(1)>>,
         batch_output_shape |-> <<BatchSize(hparams), IntV(1)>>,
         _callbacks |-> MakeCallbacks(MakeEs(hparams), MakeChk(hparams),
                                      MakeEsCrit(hparams)),
         _es |-> MakeEs(hparams),
         _chkpt |-> Get(hparams, "checkpoint_path"),
         _chk |-> MakeChk(hparams),
         early_stopping_monitor |-> Get(hparams, "early_stopping_monitor"),
         early_stopping_mode |-> Get(hparams, "early_stopping_mode"),
         early_stopping_value |-> Get(hparams, "early_stopping_value"),
         _es_crit |-> MakeEsCrit(hparams),
         net |-> Sequential]

(***************************************************************************)
(* The state after construction.                                           *)
(***************************************************************************)
NoOp == [name |-> "__init__", x_train |-> None, num_samples |-> None,
         saveto |-> None, export |-> None]

Constructed(args) ==
    /\ arg \in args
    /\ self = KerasSmartModel(arg)
    /\ nfits = 0
    /\ op = NoOp
    /\ calls = <<>>
    /\ ret = None

\* a model built from any supplied record
InitConfig == Constructed(Args)

\* a model to be trained
Init == Constructed(TrainArgs)

(***************************************************************************)
(* Helpers of the package's utils module, as the calls made to them: the   *)
(* function called and its arguments, in the order the code passes them.   *)
(***************************************************************************)
Call(fn, args) == [fn |-> fn, args |-> args]

\* a training array with the given number of rows
Array(rows) == [t |-> "ndarray", n |-> rows, s |-> ""]
Arrays == {Array(rows) : rows \in 1..MaxRows}
\* x_train.shape[0]
Shape0(x) == IntV(x.n)

\* the `history` attribute of a History object
HistoryDict(h) == [t |-> "History.history", n |-> h.n, s |-> ""]

\* the values of the optional path arguments saveto and export
Paths == {None, StrV(""), StrV("out")}

\* fit_keras_model returns a new History object on every call
fit_keras_model(k) == History(k + 1)

\* tf.keras.models.Model.get_config of the base class
BaseConfig == [name |-> StrV("keras_smart_model")]

(***************************************************************************)
(* The methods, as the helper calls they make and the values they produce. *)
(***************************************************************************)
\* lines 142-143
compile_model_calls(m, num_samples) ==
    <<Call("compile_keras_model",
           <<m.net, m._batch_size, m._learning_rate, m._optimizer,
             m._loss_function, m._metrics_list, m._optimizer_params,
             m._exponential_decay_rate, num_samples>>)>>

\* lines 160-161: the call of fit_keras_model
fit_model_calls(m, x_train, y_train, x_val, y_val, verbose) ==
    <<Call("fit_keras_model",
           <<m.net, x_train, y_train, x_val, y_val, m._batch_size, m._epochs,
             m._callbacks, verbose>>)>>

\* variant: only the first fit's History is kept
fit_model_self_KeepFirst(m, h) ==
    IF m.history = None THEN [m EXCEPT !.history = h] ELSE m

\* lines 160-162: the model after fit_model, given the History the fit made
fit_model_self(m, h) == [m EXCEPT !.history = h]

\* line 162
fit_model_ret(m, h) == fit_model_self(m, h).history

\* variant: the model is saved before it is fitted
train_model_calls_SaveFirst(m, x_train, y_train, x_val, y_val, verbose, saveto, export) ==
    compile_model_calls(m, Shape0(x_train))
    \o (IF Truthy(saveto)
        THEN <<Call("save_keras_model",
                    <<m.net, HistoryDict(m.history), saveto, m.hparams>>)>>
        ELSE <<>>)
    \o fit_model_calls(m, x_train, y_train, x_val, y_val, verbose)
    \o (IF Truthy(export)
        THEN <<Call("export_keras_model", <<m.net, export>>)>>
        ELSE <<>>)

\* lines 186-192: m is the model after the fit of line 188
train_model_calls(m, x_train, y_train, x_val, y_val, verbose, saveto, export) ==
    compile_model_calls(m, Shape0(x_train))
    \o fit_model_calls(m, x_train, y_train, x_val, y_val, verbose)
    \o (IF Truthy(saveto)
        THEN <<Call("save_keras_model",
                    <<m.net, HistoryDict(m.history), saveto, m.hparams>>)>>
        ELSE <<>>)
    \o (IF Truthy(export)
        THEN <<Call("export_keras_model", <<m.net, export>>)>>
        ELSE <<>>)

\* lines 127-130
get_config_ret(m) == ("hparams" :> m.hparams) @@ BaseConfig

\* variant: the configuration is ignored and the default model is built
from_config_ret_Default(config) == KerasSmartModel(NoRecord)

\* lines 132-134
from_config_ret(config) == KerasSmartModel(config["hparams"])

(***************************************************************************)
(* Actions: one per method call on the constructed model.                  *)
(***************************************************************************)
Op(name, x_train, num_samples, saveto, export) ==
    [name |-> name, x_train |-> x_train, num_samples |-> num_samples,
     saveto |-> saveto, export |-> export]

compile_model ==
    \E num_samples \in {None} \cup {IntV(k) : k \in 1..MaxRows} :
        /\ op' = Op("compile_model", None, num_samples, None, None)
        /\ calls' = compile_model_calls(self, num_samples)
        /\ ret' = None
        /\ UNCHANGED <<arg, self, nfits>>

fit_model ==
    \E x_train \in Arrays :
        /\ nfits < MaxFits
        /\ LET h == fit_keras_model(nfits)
           IN  /\ self' = fit_model_self(self, h)
               /\ ret' = fit_model_ret(self, h)
        /\ nfits' = nfits + 1
        /\ op' = Op("fit_model", x_train, None, None, None)
        /\ calls' = fit_model_calls(self, x_train, x_train, None, None, IntV(1))
        /\ UNCHANGED arg

train_model ==
    \E x_train \in Arrays, saveto \in Paths, export \in Paths :
        /\ nfits < MaxFits
        /\ self' = fit_model_self(self, fit_keras_model(nfits))
        /\ nfits' = nfits + 1
        /\ op' = Op("train_model", x_train, None, saveto, export)
        /\ calls' = train_model_calls(self', x_train, x_train, None, None,
                                      IntV(1), saveto, export)
        /\ ret' = None
        /\ UNCHANGED arg

\* line 203: self.history.history raises AttributeError while history is None
plot_history ==
    /\ op' = Op("plot_history", None, None, None, None)
    /\ IF self.history = None
       THEN /\ calls' = <<>>
            /\ ret' = Exc("AttributeError")
       ELSE /\ calls' = <<Call("plot_keras_model_history",
                               <<HistoryDict(self.history), List1("loss"),
                                 StrV("model loss"), None, IntV(1)>>)>>
            /\ ret' = None
    /\ UNCHANGED <<arg, self, nfits>>

get_config ==
    /\ op' = Op("get_config", None, None, None, None)
    /\ calls' = <<>>
    /\ ret' = get_config_ret(self)
    /\ UNCHANGED <<arg, self, nfits>>

\* the class method, applied to the configuration of the model
from_config ==
    \E config \in {get_config_ret(self)} :
        /\ op' = Op("from_config", None, None, None, None)
        /\ calls' = <<>>
        /\ ret' = from_config_ret(config)
        /\ UNCHANGED <<arg, self, nfits>>

Next ==
    \/ compile_model
    \/ fit_model
    \/ train_model
    \/ plot_history
    \/ get_config
    \/ from_config

Spec == Init /\ [][Next]_vars

\* construction and the configuration round trip alone, over every supplied record
NextConfig ==
    \/ get_config
    \/ from_config

SpecConfig == InitConfig /\ [][NextConfig]_vars

(***************************************************************************)
(* Properties.                                                             *)
(***************************************************************************)
\* the optional callbacks the model holds, in the order of their attributes
OptionalCallbacks ==
    SelectSeq(<<self._es, self._chk, self._es_crit>>, LAMBDA c : c # None)

\* C1 (as stated): the callback list built by the constructor has at least 0
\* and at most 3 elements.
C1_AtMostThreeCallbacks ==
    Len(self._callbacks) >= 0 /\ Len(self._callbacks) <= 3

\* C1 (amended): the callback list built by the constructor has at least 1
\* and at most 4 elements: the garbage-collection callback, which is always
\* there, and up to three optional callbacks.
C1_OneToFourCallbacks ==
    /\ Len(self._callbacks) >= 1
    /\ Len(self._callbacks) <= 4
    /\ Len(self._callbacks) = 1 + Len(OptionalCallbacks)

\* a model built with all three optional callbacks
C1_Witness ==
    /\ op.name = "__init__"
    /\ Len(self._callbacks) = 4

\* C2 (as stated): each optional callback is built exactly when its option
\* is a key of the record, whatever the value; _chkpt is the record's value of
\* checkpoint_path when it is a key.
C2_BuiltIffKeyPresent ==
    LET hp == self.hparams
    IN  /\ (self._es # None) <=> ("early_stopping_patience_epochs" \in DOMAIN hp)
        /\ (self._chk # None) <=> ("checkpoint_path" \in DOMAIN hp)
        /\ (self._es_crit # None) <=> ("early_stopping_monitor" \in DOMAIN hp)
        /\ ("checkpoint_path" \in DOMAIN hp) => self._chkpt = hp["checkpoint_path"]

\* C2 (amended): each optional callback is built exactly when its option is
\* a key of the record in effect and its value is true in Python's sense
\* (not None, not 0, not the empty string); otherwise the attribute is None.
\* _chkpt is the record's value of checkpoint_path, None when it is no key.
C2_BuiltIffValueTrue ==
    LET hp == self.hparams
        Set(k) == k \in DOMAIN hp /\ hp[k] \notin {None, IntV(0), FloatV(0), StrV("")}
    IN  /\ (self._es # None) <=> Set("early_stopping_patience_epochs")
        /\ (self._es # None) => self._es.kind = "EarlyStopping"
        /\ (self._chk # None) <=> Set("checkpoint_path")
        /\ (self._chk # None) => self._chk.kind = "ModelCheckpoint"
        /\ (self._es_crit # None) <=> Set("early_stopping_monitor")
        /\ (self._es_crit # None) => self._es_crit.kind = "EarlyStopAtCriteria"
        /\ self._chkpt = (IF "checkpoint_path" \in DOMAIN hp
                          THEN hp["checkpoint_path"] ELSE None)

\* a model whose record names a checkpoint path of no value, and no
\* checkpoint is built, while the early stopping is
C2_Witness ==
    /\ "checkpoint_path" \in DOMAIN self.hparams
    /\ self.hparams["checkpoint_path"] = StrV("")
    /\ self._chk = None
    /\ self._es # None

\* the options copied to attributes by dict.get, with the attribute's value
CopiedAttributes ==
    [loss_function |-> self._loss_function,
     metrics |-> self._metrics_list,
     optimizer |-> self._optimizer,
     optimizer_params |-> self._optimizer_params,
     early_stopping_patience_epochs |-> self._early_stopping_patience_epochs,
     learning_rate |-> self._learning_rate,
     exponential_decay_rate |-> self._exponential_decay_rate,
     validation_data |-> self._validation_data,
     epochs |-> self._epochs,
     checkpoint_path |-> self._chkpt,
     early_stopping_monitor |-> self.early_stopping_monitor,
     early_stopping_mode |-> self.early_stopping_mode,
     early_stopping_value |-> self.early_stopping_value]

\* C3 (as stated): every attribute equals the supplied record's value when
\* its option is a key of the record and its default when the option is
\* absent: 32 for the batch size, 0.0 for l2_reg, None for the others.
C3_PresentOrDefaulted ==
    arg # NoRecord =>
        /\ \A k \in DOMAIN CopiedAttributes :
               CopiedAttributes[k] = (IF k \in DOMAIN arg THEN arg[k] ELSE None)
        /\ PyEq(self._batch_size,
                IF "batch_size" \in DOMAIN arg THEN arg["batch_size"] ELSE IntV(32))
        /\ PyEq(self._l2_reg,
                IF "l2_reg" \in DOMAIN arg THEN arg["l2_reg"] ELSE FloatV(0))

\* C3 (amended): with the record in effect (the supplied record, or the
\* sample record when none or an empty one is supplied), every attribute but
\* the batch size and l2_reg equals the record's value when its option is a
\* key and None when it is absent; the batch size is the option's value
\* truncated to an integer when the option is a key with a true value, and 32
\* otherwise; l2_reg is the option's value when it is a key with a true
\* value, and 0.0 otherwise.
C3_PresentTrueOrDefaulted ==
    LET hp == self.hparams
        Set(k) == k \in DOMAIN hp /\ hp[k] \notin {None, IntV(0), FloatV(0), StrV("")}
    IN  /\ hp = (IF arg = NoRecord \/ arg = EmptyRecord THEN sample_hparams ELSE arg)
        /\ \A k \in DOMAIN CopiedAttributes :
               CopiedAttributes[k] = (IF k \in DOMAIN hp THEN hp[k] ELSE None)
        /\ self._batch_size.t = "int"
        /\ Set("batch_size") /\ hp["batch_size"].t = "int" =>
               self._batch_size.n = hp["batch_size"].n
        /\ Set("batch_size") /\ hp["batch_size"].t = "float" =>
               /\ self._batch_size.n * FloatScale <= hp["batch_size"].n
               /\ hp["batch_size"].n < (self._batch_size.n + 1) * FloatScale
        /\ ~Set("batch_size") => self._batch_size = IntV(32)
        /\ self._l2_reg = (IF Set("l2_reg") THEN hp["l2_reg"] ELSE FloatV(0))

\* a model whose record gives a fractional batch size, which is truncated
C3_Witness ==
    /\ "batch_size" \in DOMAIN self.hparams
    /\ self.hparams["batch_size"] = FloatV(2500000)
    /\ self._batch_size = IntV(2)
    /\ "l2_reg" \notin DOMAIN self.hparams

\* C4: constructed with no record or with an empty record, the model's
\* hparams is the sample record; constructed with a non-empty record, it is
\* that record, with the same keys and values.
C4_DefaultPopulated ==
    /\ (arg = NoRecord \/ arg = EmptyRecord) => self.hparams = sample_hparams
    /\ (arg # NoRecord /\ arg # EmptyRecord) =>
           /\ DOMAIN self.hparams = DOMAIN arg
           /\ \A k \in DOMAIN arg : self.hparams[k] = arg[k]

\* a model constructed with the empty record, holding the sample record
C4_Witness ==
    /\ arg = EmptyRecord
    /\ self.hparams = sample_hparams
    /\ DOMAIN self.hparams = Keys

\* C5: in every state reached by compile_model, fit_model, train_model and
\* plot_history calls, the callback list is the garbage-collection callback
\* followed by exactly those of _es, _chk and _es_crit that are not None, each
\* once and in that order.
C5_CallbackListShape ==
    /\ self._callbacks = <<GarbageCollectionCallback>> \o OptionalCallbacks
    /\ self._callbacks[1].kind = "GarbageCollectionCallback"
    /\ \A c \in {self._es, self._chk, self._es_crit} :
           Cardinality({i \in 1..Len(self._callbacks) : self._callbacks[i] = c})
           = (IF c = None THEN 0 ELSE 1)

\* a trained model with a checkpoint and a stop criterion but no early
\* stopping
C5_Witness ==
    /\ nfits > 0
    /\ op.name \in {"fit_model", "train_model", "plot_history", "compile_model"}
    /\ self._es = None
    /\ self._chk # None
    /\ self._es_crit # None
    /\ Len(self._callbacks) = 3

\* the names of the helpers called by the last method, in call order
CalledFns == [i \in 1..Len(calls) |-> calls[i].fn]

\* what train_model does whatever its arguments: compile with the rows of
\* x_train, then fit, returning nothing and leaving the fit's History
TrainCompilesThenFits ==
    /\ Len(calls) >= 2
    /\ calls[1].fn = "compile_keras_model"
    /\ calls[1].args[9] = IntV(op.x_train.n)
    /\ calls[2].fn = "fit_keras_model"
    /\ calls[2].args[2] = op.x_train
    /\ ret = None
    /\ self.history = History(nfits)
    /\ \A i \in 1..Len(calls) :
           /\ calls[i].fn = "save_keras_model" =>
                  calls[i].args = <<self.net, HistoryDict(self.history),
                                    op.saveto, self.hparams>>
           /\ calls[i].fn = "export_keras_model" =>
                  calls[i].args = <<self.net, op.export>>

\* C6 (as stated): train_model compiles with the number of rows of x_train,
\* then fits, then saves if and only if saveto is given (is not None), then
\* exports if and only if export is given (is not None).
C6_SaveIffGiven ==
    op.name = "train_model" =>
        /\ TrainCompilesThenFits
        /\ CalledFns = <<"compile_keras_model", "fit_keras_model">>
                       \o (IF op.saveto # None THEN <<"save_keras_model">> ELSE <<>>)
                       \o (IF op.export # None THEN <<"export_keras_model">> ELSE <<>>)

\* C6 (amended): train_model compiles with the number of rows of x_train,
\* then fits, then saves if and only if saveto is given and is not the empty
\* string, then exports if and only if export is given and is not the empty
\* string; it returns nothing and leaves the fit's result in self.history.
C6_SaveIffNonEmpty ==
    op.name = "train_model" =>
        /\ TrainCompilesThenFits
        /\ CalledFns = <<"compile_keras_model", "fit_keras_model">>
                       \o (IF op.saveto \notin {None, StrV("")}
                           THEN <<"save_keras_model">> ELSE <<>>)
                       \o (IF op.export \notin {None, StrV("")}
                           THEN <<"export_keras_model">> ELSE <<>>)

\* a train_model call that saved and exported, on a model fitted before
C6_Witness ==
    /\ op.name = "train_model"
    /\ op.saveto = StrV("out")
    /\ op.export = StrV("out")
    /\ Len(calls) = 4
    /\ nfits = 2

\* C7: self.history is None until the first fit; every fit_model call passes
\* the batch size, epoch count and callback list fixed at construction to
\* fit_keras_model, returns the History it produced and stores that object in
\* self.history, so self.history is always the result of the most recent fit.
C7_HistoryIsLastFit ==
    /\ nfits = 0 => self.history = None
    /\ nfits > 0 => self.history = History(nfits)
    /\ op.name = "fit_model" =>
           /\ ret = self.history
           /\ ret.t = "History"
           /\ CalledFns = <<"fit_keras_model">>
           /\ calls[1].args[2] = op.x_train
           /\ calls[1].args[6] = KerasSmartModel(arg)._batch_size
           /\ calls[1].args[7] = KerasSmartModel(arg)._epochs
           /\ calls[1].args[8] = KerasSmartModel(arg)._callbacks

\* a second fit_model call, whose History replaced the first
C7_Witness ==
    /\ op.name = "fit_model"
    /\ nfits = 2
    /\ ret = History(2)
    /\ self.history = History(2)

\* C8: get_config carries the record under the key 'hparams', and for a model
\* built from a non-empty record from_config(get_config()) is a model with
\* the same hparams, the same derived attributes and the same callbacks.
C8_ConfigRoundTrip ==
    /\ op.name = "get_config" =>
           /\ "hparams" \in DOMAIN ret
           /\ ret["hparams"] = self.hparams
    /\ (op.name = "from_config" /\ arg # NoRecord /\ arg # EmptyRecord) =>
           /\ ret.hparams = arg
           /\ ret.hparams = self.hparams
           /\ [ret EXCEPT !.history = self.history] = self
           /\ (ret._es = None) <=> (self._es = None)
           /\ (ret._chk = None) <=> (self._chk = None)
           /\ (ret._es_crit = None) <=> (self._es_crit = None)

\* a round trip of a model built from a record with a checkpoint path and
\* without the options of the other callbacks
C8_Witness ==
    /\ op.name = "from_config"
    /\ arg # NoRecord
    /\ arg # EmptyRecord
    /\ ret._chk # None
    /\ ret._es = None
    /\ ret.hparams # sample_hparams
=============================================================================
